---- MODULE Spec2Model ----
(***************************************************************************)
(* Model of the monte-carlo-advisor tensor protocol codec                  *)
(* (src/src/advisors/log_reader.py) and of the loop-unroll domain adapter  *)
(* (src/advisors/loop_unroll/loop_unroll_mc_advisor.py).                   *)
(*                                                                         *)
(* The specifications share the variables of this module:                  *)
(*   SpecTensor  - read_tensor applied repeatedly to an arbitrary stream   *)
(*   SpecLog     - read_stream decoding a training log                     *)
(*   SpecChannel - wrap_advice and send on the advice channel              *)
(*   SpecScore   - get_default_decision and the steps of get_score         *)
(*   SpecTree    - get_next_state growing the search tree                  *)
(*   SpecSearch  - rollouts: selection, on_action check, backpropagation   *)
(*                                                                         *)
(* A stream is a sequence of elements [kind, num, str].  A raw byte is     *)
(* [kind |-> "byte", num |-> value]; a JSON object of a record line is one *)
(* element whose kind is its key ("context", "observation", "outcome")     *)
(* and whose num / str is the value of that key.  Python's None and        *)
(* Optional[T] are the sequences <<>> and <<x>>.                           *)
(***************************************************************************)
EXTENDS Integers, Sequences, FiniteSets, TLC

VARIABLES
    headerLine,    \* first line of the log file: the JSON header
    body,          \* the bytes of the file after the header line
    pos,           \* number of bytes of body the BufferedReader has consumed
    tensor_specs,  \* read_stream local: feature specs
    score_spec,    \* read_stream local: Optional score spec
    context,       \* read_stream local: sticky context
    yielded,       \* records yielded by the read_stream generator so far
    last,          \* result of the last read_one_observation call
    pc,            \* position of the reader: header / open / done / failed
    log,           \* the records the log file was written from
    tensors,       \* SpecTensor: the TensorValues read_tensor returned
    advice_spec,   \* Optional advice spec of the header
    advice,        \* what the last wrap_advice call was given and returned
    buf,           \* bytes held in the BufferedWriter of the advice channel
    pipe,          \* bytes flushed to the compiler side of the channel
    lastSend,      \* what the last send call was given and did, with the
                   \* lengths of buf and pipe before it
    nsends,        \* number of send calls so far
    accepted,      \* the blocks of the sends that returned normally
    lastDefault,   \* what the last get_default_decision call was given and
                   \* returned
    gs,            \* the get_score call: its position, the temporary files
                   \* held, those this call acquired, the exception raised
    tree,          \* the search tree: the State of every node, by decisions
    current,       \* Optional node the session is at
    in_rollout,    \* rollout-mode flag of the session
    lastNext,      \* what the last get_next_state call was given and did,
                   \* with the tree before it
    lastCheck      \* what the last check_unroll_success call was given and
                   \* raised

readerVars == <<body, pos, context, yielded, last, log, tensors>>
channelVars == <<advice, buf, pipe, lastSend, nsends, accepted>>
scoreVars == <<lastDefault, gs>>
searchVars == <<tree, current, in_rollout, lastNext, lastCheck>>
advisorVars == <<scoreVars, searchVars>>
vars == <<headerLine, tensor_specs, score_spec, advice_spec, pc,
          readerVars, channelVars, advisorVars>>

(***************************************************************************)
(* Bounds                                                                  *)
(***************************************************************************)
MaxFeatures == 2
MaxRecords == 2
MaxStream == 4
MaxSends == 2
MaxValueLen == 2

(***************************************************************************)
(* Values                                                                  *)
(***************************************************************************)
None == <<>>
Some(x) == <<x>>

Min(a, b) == IF a <= b THEN a ELSE b

Byte(n) == [kind |-> "byte", num |-> n, str |-> ""]
NL == Byte(10)
IsNL(e) == e.kind = "byte" /\ e.num = 10
JsonContext(s) == [kind |-> "context", num |-> 0, str |-> s]
JsonObservation(n) == [kind |-> "observation", num |-> n, str |-> ""]
JsonOutcome(n) == [kind |-> "outcome", num |-> n, str |-> ""]

\* the data bytes the bounded streams are drawn from: one ordinary byte and
\* the byte that equals the line terminator
DataBytes == {Byte(3), NL}
\* the bytes score blocks are drawn from
ScoreBytes == {Byte(3)}
ContextNames == {"a", "b"}

(***************************************************************************)
(* log_reader.py: element types, TensorSpec, TensorValue                   *)
(***************************************************************************)
_element_types ==
    [float |-> "c_float", double |-> "c_double",
     int8_t |-> "c_int8", uint8_t |-> "c_uint8",
     int16_t |-> "c_int16", uint16_t |-> "c_uint16",
     int32_t |-> "c_int32", uint32_t |-> "c_uint32",
     int64_t |-> "c_int64", uint64_t |-> "c_uint64"]

sizeof(ct) ==
    CASE ct \in {"c_int8", "c_uint8"} -> 1
      [] ct \in {"c_int16", "c_uint16"} -> 2
      [] ct \in {"c_int32", "c_uint32", "c_float"} -> 4
      [] ct \in {"c_int64", "c_uint64", "c_double"} -> 8

RECURSIVE prod(_)
prod(shape) == IF shape = <<>> THEN 1 ELSE Head(shape) * prod(Tail(shape))

TensorSpec(name, port, shape, element_type) ==
    [name |-> name, port |-> port, shape |-> shape, element_type |-> element_type]

\* TensorSpec.from_dict: Optional result, None standing for the ValueError
from_dict(d) ==
    IF d.type \notin DOMAIN _element_types
    THEN None
    ELSE Some(TensorSpec(d.name, d.port, d.shape, _element_types[d.type]))

\* TensorValue.__init__: keeps the buffer as given, _len from the spec alone
TensorValue(spec, buffer) ==
    [spec |-> spec, buffer |-> buffer, len |-> prod(spec.shape)]

(***************************************************************************)
(* io.BufferedReader over a regular file                                   *)
(***************************************************************************)
\* f.read(size): size bytes, or all that remain when fewer remain
read(f, p, size) == SubSeq(f, p + 1, Min(p + size, Len(f)))

\* f.readline(): up to and including the next line terminator, or to EOF
readline(f, p) ==
    LET nls == {i \in (p + 1)..Len(f) : IsNL(f[i])}
        end == IF nls = {} THEN Len(f)
               ELSE CHOOSE i \in nls : \A j \in nls : i <= j
    IN  SubSeq(f, p + 1, end)

\* json.loads of one line: surrounding whitespace is skipped, and the rest
\* must be exactly one JSON object
json_loads(line) ==
    LET t == IF Len(line) > 0 /\ IsNL(line[Len(line)])
             THEN SubSeq(line, 1, Len(line) - 1) ELSE line
    IN  IF Len(t) = 1 /\ t[1].kind # "byte"
        THEN [ok |-> TRUE, obj |-> t[1]]
        ELSE [ok |-> FALSE, obj |-> NL]

(***************************************************************************)
(* read_tensor                                                             *)
(***************************************************************************)
read_tensor(f, p, ts) ==
    LET size == prod(ts.shape) * sizeof(ts.element_type)
        data == read(f, p, size)
    IN  [tv |-> TensorValue(ts, data), pos |-> p + Len(data)]

(***************************************************************************)
(* read_one_observation                                                    *)
(***************************************************************************)
\* what one call of read_one_observation did: its return value (context,
\* observation_id, features, score), the exception it raised instead (err),
\* and the file position it left; stage, obspos and featpos record how far
\* the call got, where the observation line it decoded starts, and where the
\* file stood after the readline that follows the feature loop
Outcome(stage, err, ctx, id, features, score, p, obspos, featpos) ==
    [stage |-> stage, ok |-> (err = ""), err |-> err, context |-> ctx,
     observation_id |-> id, features |-> features, score |-> score,
     pos |-> p, obspos |-> obspos, featpos |-> featpos]

NoCall == Outcome("none", "", None, 0, <<>>, None, 0, 0, 0)

\* for ts in tensor_specs: features.append(read_tensor(f, ts))
RECURSIVE read_features(_, _, _)
read_features(f, p, specs) ==
    IF specs = <<>>
    THEN [features |-> <<>>, pos |-> p]
    ELSE LET r == read_tensor(f, p, Head(specs))
             rest == read_features(f, r.pos, Tail(specs))
         IN  [features |-> <<r.tv>> \o rest.features, pos |-> rest.pos]

\* the assertion left out: any outcome id is accepted
outcome_matches_unchecked(score_header, observation_id) == TRUE

\* assert int(score_header["outcome"]) == observation_id
outcome_matches(score_header, observation_id) ==
    score_header.num = observation_id

\* event_str is the line read_stream read, which started at startpos; p is
\* the file position after it
read_one_observation(ctx0, event_str, startpos, f, p, specs, sspec) ==
    LET ev1 == json_loads(event_str)
    IN
    IF ~ev1.ok
    THEN Outcome("event", "JSONDecodeError", ctx0, 0, <<>>, None, p, startpos, p)
    ELSE
    LET hasctx == ev1.obj.kind = "context"
        ctx    == IF hasctx THEN Some(ev1.obj.str) ELSE ctx0
        line2  == readline(f, p)
        ev2    == IF hasctx THEN json_loads(line2) ELSE ev1
        p1     == IF hasctx THEN p + Len(line2) ELSE p
        opos   == IF hasctx THEN p ELSE startpos
    IN
    IF ~ev2.ok
    THEN Outcome("event", "JSONDecodeError", ctx, 0, <<>>, None, p1, opos, p1)
    ELSE IF ev2.obj.kind # "observation"
    THEN Outcome("event", "KeyError", ctx, 0, <<>>, None, p1, opos, p1)
    ELSE
    LET observation_id == ev2.obj.num
        fr == read_features(f, p1, specs)
        p2 == fr.pos + Len(readline(f, fr.pos))
    IN
    IF sspec = None
    THEN Outcome("return", "", ctx, observation_id, fr.features, None, p2, opos, p2)
    ELSE
    LET hl == readline(f, p2)
        sh == json_loads(hl)
        p3 == p2 + Len(hl)
    IN
    IF ~sh.ok
    THEN Outcome("outcome", "JSONDecodeError", ctx, observation_id, fr.features,
                 None, p3, opos, p2)
    ELSE IF sh.obj.kind # "outcome"
    THEN Outcome("outcome", "KeyError", ctx, observation_id, fr.features,
                 None, p3, opos, p2)
    ELSE IF ~outcome_matches(sh.obj, observation_id)
    THEN Outcome("outcome", "AssertionError", ctx, observation_id, fr.features,
                 None, p3, opos, p2)
    ELSE
    LET sr == read_tensor(f, p3, sspec[1])
        p4 == sr.pos + Len(readline(f, sr.pos))
    IN  Outcome("return", "", ctx, observation_id, fr.features, Some(sr.tv),
                p4, opos, p2)

(***************************************************************************)
(* loop_unroll_mc_advisor.py: the advice vector                            *)
(* A float is modelled by twice its value, an integer: 0.5 is 1, 2.0 is 4. *)
(***************************************************************************)
MAX_UNROLL_FACTOR == 5
UNROLL_FACTOR_OFFSET == 2
\* the length computed from MAX_UNROLL_FACTOR, as in the line commented out
ADVICE_TENSOR_LEN_from_max == 1 + MAX_UNROLL_FACTOR - UNROLL_FACTOR_OFFSET

ADVICE_TENSOR_LEN == 1 + 32 - UNROLL_FACTOR_OFFSET
NeutralWeight == 1
DominantWeight == 4

\* the offset forgotten when the position is computed
make_response_no_offset(factor) ==
    LET l == [i \in 1..ADVICE_TENSOR_LEN |-> NeutralWeight]
    IN  IF factor = 0 \/ factor = 1 THEN [ok |-> TRUE, l |-> l]
        ELSE IF ~(factor <= MAX_UNROLL_FACTOR) THEN [ok |-> FALSE, l |-> <<>>]
        ELSE IF ~(factor >= UNROLL_FACTOR_OFFSET) THEN [ok |-> FALSE, l |-> <<>>]
        ELSE [ok |-> TRUE, l |-> [l EXCEPT ![factor + 1] = DominantWeight]]

\* the assertion on the upper limit forgotten
make_response_unbounded(factor) ==
    LET l == [i \in 1..ADVICE_TENSOR_LEN |-> NeutralWeight]
    IN  IF factor = 0 \/ factor = 1 THEN [ok |-> TRUE, l |-> l]
        ELSE IF ~(factor >= UNROLL_FACTOR_OFFSET) THEN [ok |-> FALSE, l |-> <<>>]
        ELSE IF ~(factor - UNROLL_FACTOR_OFFSET < ADVICE_TENSOR_LEN)
        THEN [ok |-> FALSE, l |-> <<>>]
        ELSE [ok |-> TRUE,
              l |-> [l EXCEPT ![factor - UNROLL_FACTOR_OFFSET + 1] = DominantWeight]]

\* the list l is 0-based in the code and 1-based here; ok = FALSE stands for
\* a failed assertion
make_response_for_factor(factor) ==
    LET l == [i \in 1..ADVICE_TENSOR_LEN |-> NeutralWeight]
    IN  IF factor = 0 \/ factor = 1 THEN [ok |-> TRUE, l |-> l]
        ELSE IF ~(factor <= MAX_UNROLL_FACTOR) THEN [ok |-> FALSE, l |-> <<>>]
        ELSE IF ~(factor >= UNROLL_FACTOR_OFFSET) THEN [ok |-> FALSE, l |-> <<>>]
        ELSE IF ~(factor - UNROLL_FACTOR_OFFSET < ADVICE_TENSOR_LEN)
        THEN [ok |-> FALSE, l |-> <<>>]
        ELSE [ok |-> TRUE,
              l |-> [l EXCEPT ![factor - UNROLL_FACTOR_OFFSET + 1] = DominantWeight]]

wrap_advice(d) == make_response_for_factor(d)

(***************************************************************************)
(* The search tree (State of mc_advisor) and get_next_state                *)
(* A node is named by its decisions, the sequence from the root; tree maps *)
(* every node to its State: the children in the order they were added,     *)
(* visits and value_sum.  A reward is 0 or 1.                              *)
(***************************************************************************)
Root == <<>>
NewState == [children |-> <<>>, visits |-> 0, value_sum |-> 0]

is_leaf(t, state) == t[state].children = <<>>

\* state.decisions[-1]
last_decision(state) == state[Len(state)]

\* state.add_child(choice): the new child, or the failure on a decision one
\* of the children already carries
add_child(t, state, choice) ==
    IF \E i \in 1..Len(t[state].children) :
           last_decision(t[state].children[i]) = choice
    THEN [ok |-> FALSE, tree |-> t, child |-> state]
    ELSE LET c == Append(state, choice)
         IN  [ok |-> TRUE,
              tree |-> [n \in DOMAIN t \cup {c} |->
                          IF n = c THEN NewState
                          ELSE IF n = state
                          THEN [t[n] EXCEPT !.children = Append(@, c)]
                          ELSE t[n]],
              child |-> c]

\* sqrt(2) * sqrt(ln(N) / n) in millionths, rounded down, for N = 1..8 (the
\* row) and n = 1..8 (the column)
ExplorationMicro ==
    <<<<0, 0, 0, 0, 0, 0, 0, 0>>,
      <<1177410, 832554, 679777, 588705, 526553, 480675, 445019, 416277>>,
      <<1482303, 1048147, 855808, 741151, 662906, 605147, 560258, 524073>>,
      <<1665109, 1177410, 961351, 832554, 744659, 679777, 629352, 588705>>,
      <<1794122, 1268636, 1035837, 897061, 802356, 732447, 678114, 634318>>,
      <<1893018, 1338566, 1092934, 946509, 846583, 772821, 715493, 669283>>,
      <<1972769, 1394958, 1138979, 986384, 882249, 805379, 745636, 697479>>,
      <<2039333, 1442026, 1177410, 1019666, 912017, 832554, 770795, 721013>>>>

\* uct(state) = value_sum / visits + C * sqrt(ln(parent.visits) / visits)
\* with C = sqrt(2), in millionths; a division by zero or the logarithm of
\* zero raises.  Over visits up to 8 and rewards 0 and 1 the values are
\* ordered, ties included, as the floating-point values are.
uct(t, state) ==
    LET parent == SubSeq(state, 1, Len(state) - 1)
    IN  IF t[state].visits = 0
        THEN [ok |-> FALSE, err |-> "ZeroDivisionError", value |-> 0]
        ELSE IF t[parent].visits = 0
        THEN [ok |-> FALSE, err |-> "ValueError", value |-> 0]
        ELSE [ok |-> TRUE, err |-> "",
              value |-> (1000000 * t[state].value_sum) \div t[state].visits
                        + ExplorationMicro[t[parent].visits][t[state].visits]]

\* what a get_next_state call ends with: the tree, the node returned or the
\* exception raised, the branch taken and the children uct was called on
NextResult(t, result, err, branch, evaluated) ==
    [tree |-> t, result |-> result, err |-> err, branch |-> branch,
     evaluated |-> evaluated]

\* return state.add_child(choice)
expand(t, state, choice, branch) ==
    LET a == add_child(t, state, choice)
    IN  IF a.ok THEN NextResult(a.tree, Some(a.child), "", branch, <<>>)
        ELSE NextResult(t, None, "AssertionError", branch, <<>>)

\* max(state.children, key=self.uct): uct is called on the children in
\* order, the first exception ends the call, and of several maximal
\* children the first is returned
max_uct(t, state) ==
    LET kids == t[state].children
        bad == {i \in 1..Len(kids) : ~uct(t, kids[i]).ok}
    IN  IF bad # {}
        THEN LET i == CHOOSE k \in bad : \A j \in bad : k <= j
             IN  NextResult(t, None, uct(t, kids[i]).err, "uct",
                            SubSeq(kids, 1, i))
        ELSE LET u == [i \in 1..Len(kids) |-> uct(t, kids[i]).value]
                 best == CHOOSE i \in 1..Len(kids) :
                             /\ \A j \in 1..Len(kids) : u[j] <= u[i]
                             /\ \A j \in 1..(i - 1) : u[j] < u[i]
             IN  NextResult(t, Some(kids[best]), "", "uct", kids)

\* random.randint(0, MAX_UNROLL_FACTOR)
get_rollout_decision_from_zero == 0..MAX_UNROLL_FACTOR

\* the values random.randint(1, MAX_UNROLL_FACTOR) can return
get_rollout_decision == 1..MAX_UNROLL_FACTOR

\* the decisions of the children not subtracted
remaining_unroll_factors_all(t, state) == 1..MAX_UNROLL_FACTOR

remaining_unroll_factors(t, state) ==
    LET visited_unroll_factors ==
            {last_decision(t[state].children[i]) :
                i \in 1..Len(t[state].children)}
    IN  (1..MAX_UNROLL_FACTOR) \ visited_unroll_factors

\* MAX_UNROLL_FACTOR taken as the number of factors 0..MAX_UNROLL_FACTOR
get_next_state_one_more(t, state) ==
    IF is_leaf(t, state)
    THEN {expand(t, state, choice, "rollout") : choice \in get_rollout_decision}
    ELSE IF Len(t[state].children) = MAX_UNROLL_FACTOR + 1
    THEN {max_uct(t, state)}
    ELSE LET remaining == (1..(MAX_UNROLL_FACTOR + 1))
                            \ {last_decision(t[state].children[i]) :
                                  i \in 1..Len(t[state].children)}
         IN  IF remaining = {}
             THEN {NextResult(t, None, "IndexError", "explore", <<>>)}
             ELSE {expand(t, state, choice, "explore") : choice \in remaining}

\* the set of ways get_next_state(state) can end, one for every value the
\* random choice can take
get_next_state(t, state) ==
    IF is_leaf(t, state)
    THEN {expand(t, state, choice, "rollout") : choice \in get_rollout_decision}
    ELSE IF Len(t[state].children) = MAX_UNROLL_FACTOR
    THEN {max_uct(t, state)}
    ELSE LET remaining == remaining_unroll_factors(t, state)
         IN  IF remaining = {}
             THEN {NextResult(t, None, "IndexError", "explore", <<>>)}
             ELSE {expand(t, state, choice, "explore") : choice \in remaining}

\* check_unroll_success(action): the exception it raises, "" for none; the
\* conjuncts are evaluated in order, and decisions[-1] of the root, whose
\* decisions are empty, raises IndexError
check_unroll_success(action, rollout, cur) ==
    IF action THEN ""
    ELSE IF rollout THEN ""
    ELSE IF cur = None THEN ""
    ELSE IF Len(cur[1]) = 0 THEN "IndexError"
    ELSE IF last_decision(cur[1]) # 1 THEN "MonteCarloError"
    ELSE ""

NoNext == [called |-> FALSE, state |-> Root, result |-> None, err |-> "",
           branch |-> "", evaluated |-> <<>>, before |-> (Root :> NewState)]
NoCheck == [called |-> FALSE, action |-> FALSE, rollout |-> FALSE,
            cur |-> None, err |-> ""]

(***************************************************************************)
(* log_reader.py: send                                                     *)
(***************************************************************************)
RECURSIVE Pow2(_)
Pow2(k) == IF k = 0 THEN 1 ELSE 2 * Pow2(k - 1)

RECURSIVE ilog2(_)
ilog2(a) == IF a < 2 THEN 0 ELSE 1 + ilog2(a \div 2)

Repeat(x, n) == [i \in 1..n |-> x]

\* int(el): truncation toward zero of the number h/2
py_int(h) == IF h >= 0 THEN h \div 2 ELSE -((-h) \div 2)

\* bytes(ctypes.c_int64(n)): little-endian two's complement, for |n| < 2^23
int64_bytes(n) ==
    LET u == n % 16777216
    IN  <<u % 256, (u \div 256) % 256, (u \div 65536) % 256>>
        \o Repeat(IF n < 0 THEN 255 ELSE 0, 5)

\* bytes(ctypes.c_float(h/2)): little-endian IEEE 754 binary32
float32_bytes(h) ==
    IF h = 0 THEN Repeat(0, 4)
    ELSE LET a == IF h < 0 THEN -h ELSE h
             k == ilog2(a)
             biased == k + 126
             mant == (a - Pow2(k)) * Pow2(23 - k)
         IN  <<mant % 256, (mant \div 256) % 256,
               (biased % 2) * 128 + mant \div 65536,
               (IF h < 0 THEN 128 ELSE 0) + biased \div 2>>

RECURSIVE Concat(_)
Concat(ss) == IF ss = <<>> THEN <<>> ELSE Head(ss) \o Concat(Tail(ss))

\* a value is a scalar (islist = FALSE, one element) or a list
Scalar(v) == [islist |-> FALSE, els |-> <<v>>]
List(vs) == [islist |-> TRUE, els |-> vs]

\* every element type is passed on to ctypes as it is
ctype_func_any(element_type) == Some(element_type)

\* the if / elif / else on spec.element_type: the ctype and the conversion
\* that go with it, None for the unsupported kinds
ctype_func(element_type) ==
    IF element_type = "c_int64" THEN Some("c_int64")
    ELSE IF element_type = "c_float" THEN Some("c_float")
    ELSE None

\* bytes(to_send): each element converted by convert_el_func and laid out as
\* ctype_func
bytes_to_send(ct, value) ==
    Concat([i \in 1..Len(value.els) |->
               IF ct = "c_float" THEN float32_bytes(value.els[i])
               ELSE int64_bytes(py_int(value.els[i]))])

\* the comparison of the assert left out
write_count_any(n, spec) == TRUE

\* f.write(...) == ctypes.sizeof(spec.element_type) * math.prod(spec.shape)
write_count_ok(n, spec) == n = sizeof(spec.element_type) * prod(spec.shape)

SendResult(status, b, p, written, block) ==
    [status |-> status, buf |-> b, pipe |-> p, written |-> written,
     block |-> block]

\* send(f, value, spec) on the BufferedWriter f = (b, p): f.write appends to
\* the buffer b (an advice block is far smaller than the buffer), f.flush
\* moves the buffer to the pipe p.  The bytes of the advice channel are the
\* integers 0..255.
send(b, p, value, spec) ==
    IF spec = None
    THEN SendResult("no spec", b, p, 0, <<>>)
    ELSE
    LET ct == ctype_func(spec[1].element_type)
    IN
    IF ct = None
    THEN SendResult("not supported", b, p, 0, <<>>)
    ELSE
    LET to_send == bytes_to_send(ct[1], value)
        b1 == b \o to_send
    IN  IF ~write_count_ok(Len(to_send), spec[1])
        THEN SendResult("AssertionError", b1, p, Len(to_send), to_send)
        ELSE SendResult("ok", <<>>, p \o b1, Len(to_send), to_send)

(***************************************************************************)
(* The advice channel: wrap_advice and send                                *)
(***************************************************************************)
NoAdvice == [called |-> FALSE, decision |-> 0, ok |-> FALSE, l |-> <<>>]
NoSend == [called |-> FALSE, value |-> Scalar(0), status |-> "", written |-> 0,
           block |-> <<>>, buf_before |-> 0, pipe_before |-> 0]

NoDefault == [called |-> FALSE, heuristic |-> 0, result |-> 0]
NoScoreCall == [pc |-> "idle", held |-> {}, acquired |-> {}, err |-> ""]

AdvisorIdle ==
    /\ lastDefault = NoDefault
    /\ gs = NoScoreCall
    /\ tree = (Root :> NewState)
    /\ current = None
    /\ in_rollout = FALSE
    /\ lastNext = NoNext
    /\ lastCheck = NoCheck

ChannelIdle ==
    /\ advice = NoAdvice
    /\ buf = <<>>
    /\ pipe = <<>>
    /\ lastSend = NoSend
    /\ nsends = 0
    /\ accepted = <<>>

\* decisions handed to wrap_advice: the legal ones and their neighbours
Decisions == (-1)..(MAX_UNROLL_FACTOR + 1)

Scalars == {NeutralWeight, -DominantWeight}

SendValues ==
    {Scalar(v) : v \in Scalars}
    \cup {List(Repeat(v, n)) : v \in Scalars, n \in 0..MaxValueLen}

AdviceDicts ==
    {[name |-> "advice", port |-> 0, shape |-> sh, type |-> ty] :
        sh \in {<<>>, <<2>>, <<ADVICE_TENSOR_LEN>>},
        ty \in {"int64_t", "float", "int32_t"}}
    \cup {[name |-> "advice", port |-> 0, shape |-> <<1>>, type |-> "bool"]}

ChannelHeaders ==
    [features : {<<>>}, score : {None},
     advice : {None} \cup {Some(d) : d \in AdviceDicts}]

\* one call wrap_advice(d)
WrapAdvice ==
    /\ pc = "open"
    /\ \E d \in Decisions :
         LET r == wrap_advice(d)
         IN  advice' = [called |-> TRUE, decision |-> d, ok |-> r.ok, l |-> r.l]
    /\ UNCHANGED <<headerLine, tensor_specs, score_spec, advice_spec, pc,
                   readerVars, buf, pipe, lastSend, nsends, accepted>>
    /\ UNCHANGED advisorVars

\* one call send(f, value, advice_spec), of the wrapped advice or of any
\* other value
Send ==
    /\ pc = "open"
    /\ nsends < MaxSends
    /\ \E value \in SendValues \cup
                    (IF advice.ok THEN {List(advice.l)} ELSE {}) :
         LET r == send(buf, pipe, value, advice_spec)
         IN  /\ buf' = r.buf
             /\ pipe' = r.pipe
             /\ lastSend' = [called |-> TRUE, value |-> value,
                             status |-> r.status, written |-> r.written,
                             block |-> r.block, buf_before |-> Len(buf),
                             pipe_before |-> Len(pipe)]
             /\ accepted' = IF r.status = "ok" THEN Append(accepted, r.block)
                            ELSE accepted
    /\ nsends' = nsends + 1
    /\ UNCHANGED <<headerLine, tensor_specs, score_spec, advice_spec, pc,
                   readerVars, advice>>
    /\ UNCHANGED advisorVars

(***************************************************************************)
(* The training log the reader is given (format of the log, section 6)     *)
(***************************************************************************)
FeatureDicts == {[name |-> "f", port |-> 0, shape |-> <<1>>, type |-> "int8_t"]}
ScoreDicts == {[name |-> "s", port |-> 0, shape |-> <<1>>, type |-> "int8_t"]}

SeqsUpTo(S, n) == UNION {[1..k -> S] : k \in 0..n}

Headers ==
    [features : SeqsUpTo(FeatureDicts, MaxFeatures),
     score : {None} \cup {Some(d) : d \in ScoreDicts},
     advice : {None}]

DictSize(d) == prod(d.shape) * sizeof(_element_types[d.type])
Blocks(d) == [1..DictSize(d) -> DataBytes]
ScoreBlocks(d) == [1..DictSize(d) -> ScoreBytes]

FeatureBlocks(h) ==
    {fs \in [1..Len(h.features) -> UNION {Blocks(d) : d \in FeatureDicts}] :
        \A i \in 1..Len(h.features) : fs[i] \in Blocks(h.features[i])}

\* what the writer chooses for one record; skew is the difference between
\* the id of the outcome line and the id of the observation line
RecordBodies(h) ==
    [context : {None} \cup {Some(c) : c \in ContextNames},
     features : FeatureBlocks(h),
     skew : IF h.score = None THEN {0} ELSE {0, 1},
     score : IF h.score = None THEN {<<>>} ELSE ScoreBlocks(h.score[1])]

\* observation ids count up from 0
MakeLog(recs) ==
    [i \in 1..Len(recs) |->
        [context |-> recs[i].context, observation |-> i - 1,
         features |-> recs[i].features, outcome |-> i - 1 + recs[i].skew,
         score |-> recs[i].score]]

RECURSIVE EncodeBlocks(_)
EncodeBlocks(blocks) ==
    IF blocks = <<>> THEN <<>>
    ELSE Head(blocks) \o <<NL>> \o EncodeBlocks(Tail(blocks))

EncodeRecord(h, r) ==
    (IF r.context = None THEN <<>> ELSE <<JsonContext(r.context[1]), NL>>)
    \o <<JsonObservation(r.observation), NL>>
    \o EncodeBlocks(r.features)
    \o (IF h.score = None THEN <<>>
        ELSE <<JsonOutcome(r.outcome), NL>> \o r.score \o <<NL>>)

RECURSIVE EncodeLog(_, _)
EncodeLog(h, recs) ==
    IF recs = <<>> THEN <<>>
    ELSE EncodeRecord(h, Head(recs)) \o EncodeLog(h, Tail(recs))

(***************************************************************************)
(* read_header and read_stream                                             *)
(***************************************************************************)

\* from_dict(header[key]) if key in header else None: Some(Optional spec),
\* or None for the ValueError of from_dict
optional_from_dict(field) ==
    IF field = None THEN Some(None)
    ELSE LET s == from_dict(field[1])
         IN  IF s = None THEN None ELSE Some(s)

\* read_header(f), and context = None of read_stream
ReadHeader ==
    /\ pc = "header"
    /\ LET fs == [i \in 1..Len(headerLine.features) |->
                     from_dict(headerLine.features[i])]
           sc == optional_from_dict(headerLine.score)
           ad == optional_from_dict(headerLine.advice)
       IN  IF (\E i \in 1..Len(fs) : fs[i] = None) \/ sc = None \/ ad = None
           THEN /\ pc' = "failed"
                /\ UNCHANGED <<tensor_specs, score_spec, advice_spec>>
           ELSE /\ pc' = "open"
                /\ tensor_specs' = [i \in 1..Len(fs) |-> fs[i][1]]
                /\ score_spec' = sc[1]
                /\ advice_spec' = ad[1]
    /\ context' = None
    /\ UNCHANGED <<headerLine, body, pos, yielded, last, log, tensors>>
    /\ UNCHANGED channelVars
    /\ UNCHANGED advisorVars

\* one iteration of the while loop of read_stream: readline, then either the
\* break at end of file, or read_one_observation and the yield, or the
\* exception that ends the generator
ReadStreamStep ==
    /\ pc = "open"
    /\ LET event_str == readline(body, pos)
           p == pos + Len(event_str)
       IN  IF event_str = <<>>
           THEN /\ pc' = "done"
                /\ UNCHANGED <<pos, context, yielded, last>>
           ELSE LET r == read_one_observation(context, event_str, pos, body, p,
                                              tensor_specs, score_spec)
                IN  /\ last' = r
                    /\ pos' = r.pos
                    /\ IF r.ok
                       THEN /\ context' = r.context
                            /\ yielded' = Append(yielded, r)
                            /\ pc' = "open"
                       ELSE /\ pc' = "failed"
                            /\ UNCHANGED <<context, yielded>>
    /\ UNCHANGED <<headerLine, body, tensor_specs, score_spec, advice_spec,
                   log, tensors>>
    /\ UNCHANGED channelVars
    /\ UNCHANGED advisorVars

InitLog ==
    /\ headerLine \in Headers
    /\ \E k \in 0..MaxRecords :
         \E recs \in [1..k -> RecordBodies(headerLine)] : log = MakeLog(recs)
    /\ body = EncodeLog(headerLine, log)
    /\ pos = 0
    /\ tensor_specs = <<>>
    /\ score_spec = None
    /\ context = None
    /\ yielded = <<>>
    /\ last = NoCall
    /\ pc = "header"
    /\ tensors = <<>>
    /\ advice_spec = None
    /\ ChannelIdle
    /\ AdvisorIdle

NextLog == ReadHeader \/ ReadStreamStep

SpecLog == InitLog /\ [][NextLog]_vars

(***************************************************************************)
(* read_tensor on an arbitrary stream                                      *)
(***************************************************************************)
TensorDicts ==
    {[name |-> "t", port |-> 0, shape |-> sh, type |-> ty] :
        sh \in {<<>>, <<1>>, <<2>>, <<1, 2>>, <<0>>},
        ty \in {"int8_t", "uint16_t", "float"}}

\* one call read_tensor(fs, ts) on the open stream
ReadTensor ==
    /\ pc = "tensor"
    /\ Len(tensors) < MaxStream
    /\ LET r == read_tensor(body, pos, tensor_specs[1])
       IN  /\ tensors' = Append(tensors,
                 [tv |-> r.tv, before |-> pos, after |-> r.pos])
           /\ pos' = r.pos
    /\ UNCHANGED <<headerLine, body, tensor_specs, score_spec, advice_spec,
                   context, yielded, last, pc, log>>
    /\ UNCHANGED channelVars
    /\ UNCHANGED advisorVars

InitTensor ==
    /\ headerLine = [features |-> <<>>, score |-> None, advice |-> None]
    /\ body \in SeqsUpTo(DataBytes, MaxStream)
    /\ pos = 0
    /\ \E d \in TensorDicts : tensor_specs = <<from_dict(d)[1]>>
    /\ score_spec = None
    /\ context = None
    /\ yielded = <<>>
    /\ last = NoCall
    /\ pc = "tensor"
    /\ log = <<>>
    /\ tensors = <<>>
    /\ advice_spec = None
    /\ ChannelIdle
    /\ AdvisorIdle

NextTensor == ReadTensor

SpecTensor == InitTensor /\ [][NextTensor]_vars

InitChannel ==
    /\ headerLine \in ChannelHeaders
    /\ body = <<>>
    /\ pos = 0
    /\ tensor_specs = <<>>
    /\ score_spec = None
    /\ advice_spec = None
    /\ context = None
    /\ yielded = <<>>
    /\ last = NoCall
    /\ pc = "header"
    /\ log = <<>>
    /\ tensors = <<>>
    /\ ChannelIdle
    /\ AdvisorIdle

NextChannel == ReadHeader \/ WrapAdvice \/ Send

SpecChannel == InitChannel /\ [][NextChannel]_vars

(***************************************************************************)
(* loop_unroll_mc_advisor.py: get_default_decision and get_score           *)
(***************************************************************************)
\* how far above MAX_UNROLL_FACTOR the compiler's heuristic is drawn
MaxExcess == 3
Heuristics == (-1)..(MAX_UNROLL_FACTOR + MaxExcess)

\* the clamp to MAX_UNROLL_FACTOR forgotten
get_default_decision_unclamped(heuristic) ==
    IF heuristic = 0 THEN 1
    ELSE heuristic

get_default_decision(heuristic) ==
    IF heuristic = 0 THEN 1
    ELSE IF heuristic > MAX_UNROLL_FACTOR THEN MAX_UNROLL_FACTOR
    ELSE heuristic

\* one call get_default_decision(tv, h)
GetDefaultDecision ==
    /\ pc = "advisor"
    /\ \E h \in Heuristics :
         lastDefault' = [called |-> TRUE, heuristic |-> h,
                         result |-> get_default_decision(h)]
    /\ UNCHANGED <<headerLine, tensor_specs, score_spec, advice_spec, pc,
                   readerVars, channelVars, gs, searchVars>>

\* the statements of get_score in order: the two context managers of the
\* with statement, then the four statements of its body
ScoreSteps == <<"f1", "f2", "write", "compile", "read", "score">>
StepAfter(step) ==
    LET i == CHOOSE k \in 1..Len(ScoreSteps) : ScoreSteps[k] = step
    IN  IF i = Len(ScoreSteps) THEN "exit" ELSE ScoreSteps[i + 1]

\* the exceptions a statement of get_score can end with: creating or using
\* a temporary file fails, the compiler fails, on_action raises out of the
\* compiler run, the scoring function raises
StepErrors(step) ==
    CASE step = "compile" -> {"CompilerError", "MonteCarloError"}
      [] step = "score" -> {"ScoringError"}
      [] OTHER -> {"OSError"}

\* cleanup written after the body, so that it runs on a normal return only
with_exit_on_return(held, acquired, err) ==
    IF err = "" THEN held \ acquired ELSE held

\* leaving the with statement closes, and so deletes, every
\* NamedTemporaryFile it entered, whether or not an exception is passing
with_exit(held, acquired, err) == held \ acquired

\* get_score is called
GetScoreCall ==
    /\ pc = "advisor"
    /\ gs.pc \in {"idle", "returned", "raised"}
    /\ gs' = [pc |-> ScoreSteps[1], held |-> gs.held, acquired |-> {},
              err |-> ""]
    /\ UNCHANGED <<headerLine, tensor_specs, score_spec, advice_spec, pc,
                   readerVars, channelVars, lastDefault, searchVars>>

\* tempfile.NamedTemporaryFile(...) as f1 / as f2: the file is created and
\* held, or its creation fails
GetScoreAcquire ==
    /\ pc = "advisor"
    /\ gs.pc \in {"f1", "f2"}
    /\ \/ gs' = [gs EXCEPT !.pc = StepAfter(gs.pc),
                            !.held = gs.held \cup {gs.pc},
                            !.acquired = gs.acquired \cup {gs.pc}]
       \/ \E e \in StepErrors(gs.pc) :
            gs' = [gs EXCEPT !.pc = "exit", !.err = e]
    /\ UNCHANGED <<headerLine, tensor_specs, score_spec, advice_spec, pc,
                   readerVars, channelVars, lastDefault, searchVars>>

\* one statement of the body: f1.write and f1.flush, runner.compile_once
\* with on_action = check_unroll_success, f2.read, scoring_function
GetScoreBody ==
    /\ pc = "advisor"
    /\ gs.pc \in {"write", "compile", "read", "score"}
    /\ \/ gs' = [gs EXCEPT !.pc = StepAfter(gs.pc)]
       \/ \E e \in StepErrors(gs.pc) :
            gs' = [gs EXCEPT !.pc = "exit", !.err = e]
    /\ UNCHANGED <<headerLine, tensor_specs, score_spec, advice_spec, pc,
                   readerVars, channelVars, lastDefault, searchVars>>

\* the with statement is left, by the return or by the exception
GetScoreExit ==
    /\ pc = "advisor"
    /\ gs.pc = "exit"
    /\ gs' = [gs EXCEPT !.pc = IF gs.err = "" THEN "returned" ELSE "raised",
                        !.held = with_exit(gs.held, gs.acquired, gs.err)]
    /\ UNCHANGED <<headerLine, tensor_specs, score_spec, advice_spec, pc,
                   readerVars, channelVars, lastDefault, searchVars>>

\* the reader and the channel are not in use
ReaderIdle ==
    /\ headerLine = [features |-> <<>>, score |-> None, advice |-> None]
    /\ body = <<>>
    /\ pos = 0
    /\ tensor_specs = <<>>
    /\ score_spec = None
    /\ advice_spec = None
    /\ context = None
    /\ yielded = <<>>
    /\ last = NoCall
    /\ log = <<>>
    /\ tensors = <<>>

InitScore ==
    /\ ReaderIdle
    /\ pc = "advisor"
    /\ ChannelIdle
    /\ AdvisorIdle

NextScore ==
    GetDefaultDecision \/ GetScoreCall \/ GetScoreAcquire \/ GetScoreBody
        \/ GetScoreExit

SpecScore == InitScore /\ [][NextScore]_vars

(***************************************************************************)
(* The search session: rollouts over the tree                              *)
(***************************************************************************)
\* most nodes the tree is grown to
MaxNodes == 7
\* most decision points of one compiler run
MaxDepth == 1
\* most scored rollouts
MaxVisits == 6

Rewards == {0, 1}

\* no exception has ended the compiler run of this rollout
Running == lastNext.err = "" /\ lastCheck.err = ""

\* a rollout begins, the one before it being over: the session is at the
\* root again
StartRollout ==
    /\ pc = "search"
    /\ current = None \/ ~Running
    /\ current' = Some(Root)
    /\ lastNext' = NoNext
    /\ lastCheck' = NoCheck
    /\ UNCHANGED <<headerLine, tensor_specs, score_spec, advice_spec, pc,
                   readerVars, channelVars, scoreVars, tree, in_rollout>>

\* a decision point: self.current = self.get_next_state(self.current)
GetNextState ==
    /\ pc = "search"
    /\ current # None
    /\ Running
    /\ Len(current[1]) < MaxDepth
    /\ \E r \in get_next_state(tree, current[1]) :
         /\ r.tree = tree \/ Cardinality(DOMAIN tree) < MaxNodes
         /\ tree' = r.tree
         /\ current' = IF r.err = "" THEN r.result ELSE current
         /\ lastNext' = [called |-> TRUE, state |-> current[1],
                         result |-> r.result, err |-> r.err,
                         branch |-> r.branch, evaluated |-> r.evaluated,
                         before |-> tree]
    /\ UNCHANGED <<headerLine, tensor_specs, score_spec, advice_spec, pc,
                   readerVars, channelVars, scoreVars, in_rollout, lastCheck>>

\* the rollout is over, scored or not; the statistics are left out
EndRollout ==
    /\ pc = "search"
    /\ current # None
    /\ Running
    /\ current' = None
    /\ UNCHANGED <<headerLine, tensor_specs, score_spec, advice_spec, pc,
                   readerVars, channelVars, scoreVars, tree, in_rollout,
                   lastNext, lastCheck>>

InitTree ==
    /\ ReaderIdle
    /\ pc = "search"
    /\ ChannelIdle
    /\ AdvisorIdle

NextTree == StartRollout \/ GetNextState \/ EndRollout

SpecTree == InitTree /\ [][NextTree]_vars

\* the entry point of the search sets the mode of the rollouts to come
SetRolloutMode ==
    /\ pc = "search"
    /\ current = None
    /\ in_rollout' = ~in_rollout
    /\ UNCHANGED <<headerLine, tensor_specs, score_spec, advice_spec, pc,
                   readerVars, channelVars, scoreVars, tree, current,
                   lastNext, lastCheck>>

\* the compiler reports through on_action whether it unrolled
CheckUnrollSuccess ==
    /\ pc = "search"
    /\ Running
    /\ \E action \in BOOLEAN :
         lastCheck' = [called |-> TRUE, action |-> action,
                       rollout |-> in_rollout, cur |-> current,
                       err |-> check_unroll_success(action, in_rollout,
                                                    current)]
    /\ UNCHANGED <<headerLine, tensor_specs, score_spec, advice_spec, pc,
                   readerVars, channelVars, scoreVars, tree, current,
                   in_rollout, lastNext>>

\* visits and value_sum of every node on the path from leaf to the root
backprop(t, leaf, reward) ==
    [n \in DOMAIN t |->
        IF Len(n) <= Len(leaf) /\ n = SubSeq(leaf, 1, Len(n))
        THEN [t[n] EXCEPT !.visits = @ + 1, !.value_sum = @ + reward]
        ELSE t[n]]

\* the rollout is scored and its reward backpropagated; a rollout ended by
\* the unsuccessful-action error is left without backpropagation or given
\* the reward 0, one ended by another exception is left
Backpropagate ==
    /\ pc = "search"
    /\ current # None
    /\ current[1] # Root
    /\ lastNext.err = ""
    /\ lastCheck.err \in {"", "MonteCarloError"}
    /\ tree[Root].visits < MaxVisits
    /\ \E reward \in Rewards :
         /\ lastCheck.err = "MonteCarloError" => reward = 0
         /\ tree' = backprop(tree, current[1], reward)
    /\ current' = None
    /\ UNCHANGED <<headerLine, tensor_specs, score_spec, advice_spec, pc,
                   readerVars, channelVars, scoreVars, in_rollout, lastNext,
                   lastCheck>>

InitSearch == InitTree

NextSearch ==
    StartRollout \/ SetRolloutMode \/ GetNextState \/ CheckUnrollSuccess
        \/ Backpropagate

SpecSearch == InitSearch /\ [][NextSearch]_vars

(***************************************************************************)
(* Where the records of the log lie in the file                            *)
(***************************************************************************)
RecStart(i) == Len(EncodeLog(headerLine, SubSeq(log, 1, i - 1)))
ObsLinePos(i) == RecStart(i) + (IF log[i].context = None THEN 0 ELSE 2)
FeaturesEnd(i) == ObsLinePos(i) + 2 + Len(EncodeBlocks(log[i].features))
IsObsLine(p) == \E i \in 1..Len(log) : ObsLinePos(i) = p
RecordAt(p) == CHOOSE i \in 1..Len(log) : ObsLinePos(i) = p

ScoreDeclared == headerLine.score # None
Mismatched(i) == ScoreDeclared /\ log[i].outcome # log[i].observation
WellFormed == \A i \in 1..Len(log) : ~Mismatched(i)

\* the value of the last context line at or before record i, None if none
RECURSIVE MostRecentContext(_)
MostRecentContext(i) ==
    IF i = 0 THEN None
    ELSE IF log[i].context # None THEN log[i].context
    ELSE MostRecentContext(i - 1)

Buffers(features) == [i \in 1..Len(features) |-> features[i].buffer]

TensorSize(ts) == prod(ts.shape) * sizeof(ts.element_type)

(***************************************************************************)
(* Claims about the log reader                                             *)
(***************************************************************************)
\* C1: every TensorValue read_tensor returns has a buffer of exactly
\* width * d1 * ... * dk bytes and the call consumed exactly that many bytes
\* (read_tensor has no failing exit, so a short read would have to fail)
C1_ReadTensorExact ==
    \A i \in 1..Len(tensors) :
        /\ Len(tensors[i].tv.buffer) = TensorSize(tensors[i].tv.spec)
        /\ tensors[i].after - tensors[i].before = TensorSize(tensors[i].tv.spec)

\* C2: with N >= 1 feature specs, a call of read_one_observation that read
\* the features of a record of the log returns every feature with exactly
\* the bytes of its own block and leaves the file, after the feature part,
\* at the first byte of the next line (outcome line or next record)
C2_FeaturesFramed ==
    (/\ pc \in {"open", "done", "failed"}
     /\ Len(tensor_specs) >= 1
     /\ last.stage \in {"outcome", "return"}
     /\ IsObsLine(last.obspos))
    => LET j == RecordAt(last.obspos)
       IN  /\ Buffers(last.features) = log[j].features
           /\ last.featpos = FeaturesEnd(j)

\* C3: on a well-formed log of k records read_stream does not fail, and when
\* it has ended it has yielded exactly the k records, in order, each with the
\* sticky context, the observation id, the feature bytes and the score bytes
\* written in the log
C3_WellFormedDecoded ==
    WellFormed =>
        /\ pc # "failed"
        /\ pc = "done" =>
            /\ Len(yielded) = Len(log)
            /\ \A j \in 1..Len(yielded) :
                /\ yielded[j].context = MostRecentContext(j)
                /\ yielded[j].observation_id = log[j].observation
                /\ Buffers(yielded[j].features) = log[j].features
                /\ yielded[j].score =
                       (IF ScoreDeclared
                        THEN Some(TensorValue(score_spec[1], log[j].score))
                        ELSE None)

\* C4: with a score spec declared, no record whose outcome id differs from
\* its observation id is yielded, nor any record after it; read_stream never
\* ends normally on a log that holds such a record; and the assertion fails
\* only on a record whose two ids differ
C4_OutcomeMismatchFatal ==
    ScoreDeclared =>
        /\ \A j \in 1..Len(yielded) :
              /\ IsObsLine(yielded[j].obspos)
              /\ \A i \in 1..RecordAt(yielded[j].obspos) : ~Mismatched(i)
        /\ pc = "done" => WellFormed
        /\ last.err = "AssertionError" =>
              /\ pc = "failed"
              /\ IsObsLine(last.obspos)
              /\ Mismatched(RecordAt(last.obspos))

\* C4 witness: the first of two records has a differing outcome id, the
\* assertion failed on it and nothing was yielded
C4_Witness ==
    /\ pc = "failed"
    /\ last.err = "AssertionError"
    /\ Len(log) = 2
    /\ Mismatched(1)
    /\ yielded = <<>>

\* C5: the context of every yielded record is the value of the most recent
\* context line that precedes the record's observation line in the file
C5_ContextMostRecent ==
    \A j \in 1..Len(yielded) :
        IsObsLine(yielded[j].obspos) =>
            yielded[j].context = MostRecentContext(RecordAt(yielded[j].obspos))

(***************************************************************************)
(* Claims about send and wrap_advice                                       *)
(***************************************************************************)
FlatLen(value) == IF value.islist THEN Len(value.els) ELSE 1
Suffix(q, n) == SubSeq(q, Len(q) - n + 1, Len(q))
BlockSize(spec) == sizeof(spec.element_type) * prod(spec.shape)

\* C6: a send that returned normally wrote exactly width * product(shape)
\* bytes of its spec, and these bytes, with all that was buffered before,
\* are in the pipe and the buffer is empty when it returns; a send whose
\* flattened value length differs from product(shape) does not return
\* normally
C6_SendExactAndFlushed ==
    (lastSend.called /\ advice_spec # None) =>
        /\ lastSend.status = "ok" =>
              /\ lastSend.written = BlockSize(advice_spec[1])
              /\ buf = <<>>
              /\ Len(pipe) = lastSend.pipe_before + lastSend.buf_before
                                + lastSend.written
              /\ Suffix(pipe, lastSend.written) = lastSend.block
        /\ FlatLen(lastSend.value) # prod(advice_spec[1].shape) =>
              lastSend.status # "ok"

\* C6 witness: the wrapped advice was sent as a float tensor of shape
\* [ADVICE_TENSOR_LEN] and the call returned normally
C6_Witness ==
    /\ lastSend.called
    /\ lastSend.status = "ok"
    /\ advice.ok
    /\ lastSend.value = List(advice.l)
    /\ lastSend.written = 4 * ADVICE_TENSOR_LEN
    /\ pipe = lastSend.block

\* C7: all the bytes that have reached the compiler side or wait in the
\* buffer for the next flush are the blocks of the sends that returned
\* normally, one block of width * product(shape) bytes each, in order
C7_OnlyAcceptedBlocks ==
    /\ pipe \o buf = Concat(accepted)
    /\ \A i \in 1..Len(accepted) :
          advice_spec # None /\ Len(accepted[i]) = BlockSize(advice_spec[1])

\* C8 as stated: send fails as unsupported exactly for the element kinds a
\* header cannot declare, writing nothing; that is, never for the advice
\* spec a header declared
C8_EncodableIsDeclarable ==
    (lastSend.called /\ advice_spec # None) =>
        /\ lastSend.status = "not supported" <=>
              (\A t \in DOMAIN _element_types :
                   _element_types[t] # advice_spec[1].element_type)
        /\ lastSend.status = "not supported" =>
              /\ lastSend.written = 0
              /\ Len(buf) = lastSend.buf_before
              /\ Len(pipe) = lastSend.pipe_before

\* C8 amended: send fails as unsupported exactly for the element kinds
\* other than int64_t and float, and then no byte has been written to the
\* buffer or the pipe
C8_UnsupportedKindsRejected ==
    (lastSend.called /\ advice_spec # None) =>
        /\ lastSend.status = "not supported" <=>
              advice_spec[1].element_type \notin
                  {_element_types["int64_t"], _element_types["float"]}
        /\ lastSend.status = "not supported" =>
              /\ lastSend.written = 0
              /\ lastSend.block = <<>>
              /\ Len(buf) = lastSend.buf_before
              /\ Len(pipe) = lastSend.pipe_before

\* C8 witness: a header declared an int32_t advice spec and send rejected
\* the wrapped advice
C8_Witness ==
    /\ lastSend.called
    /\ advice_spec # None
    /\ advice_spec[1].element_type = "c_int32"
    /\ advice.ok
    /\ lastSend.value = List(advice.l)
    /\ lastSend.status = "not supported"

LegalDecisions == 1..MAX_UNROLL_FACTOR

\* the vector that is neutral everywhere except at the position of factor d
ExpectedVector(d, n) ==
    [i \in 1..n |->
        IF d >= UNROLL_FACTOR_OFFSET /\ i = d - UNROLL_FACTOR_OFFSET + 1
        THEN DominantWeight ELSE NeutralWeight]

\* C9 as stated: for a legal decision wrap_advice returns the vector of
\* length 1 + MAX_FACTOR - OFFSET that is neutral except at d - OFFSET
C9_VectorOfMaxFactorLength ==
    (advice.called /\ advice.decision \in LegalDecisions) =>
        /\ advice.ok
        /\ advice.l = ExpectedVector(advice.decision,
                          1 + MAX_UNROLL_FACTOR - UNROLL_FACTOR_OFFSET)

\* C9 amended: for a legal decision wrap_advice returns the vector of
\* length 1 + 32 - OFFSET that is neutral except at d - OFFSET
C9_VectorOfAdviceTensorLength ==
    (advice.called /\ advice.decision \in LegalDecisions) =>
        /\ advice.ok
        /\ Len(advice.l) = 1 + 32 - UNROLL_FACTOR_OFFSET
        /\ advice.l = ExpectedVector(advice.decision,
                          1 + 32 - UNROLL_FACTOR_OFFSET)

\* C9 witness: the largest legal decision was wrapped
C9_Witness ==
    /\ advice.called
    /\ advice.ok
    /\ advice.decision = MAX_UNROLL_FACTOR
    /\ advice.l[MAX_UNROLL_FACTOR - UNROLL_FACTOR_OFFSET + 1] = DominantWeight

\* positions (0-based, as in the code) that hold a maximal element of l
ArgMax(l) ==
    {i - 1 : i \in {k \in 1..Len(l) : \A j \in 1..Len(l) : l[j] <= l[k]}}

\* C10: for a legal decision d >= OFFSET the vector has exactly one maximal
\* position, and that position plus OFFSET is d
C10_ArgMaxRecoversDecision ==
    (advice.called
        /\ advice.decision \in UNROLL_FACTOR_OFFSET..MAX_UNROLL_FACTOR) =>
        /\ advice.ok
        /\ ArgMax(advice.l) = {advice.decision - UNROLL_FACTOR_OFFSET}

\* C10 witness: decision 3 was wrapped and its arg-max position is 1
C10_Witness ==
    /\ advice.called
    /\ advice.ok
    /\ advice.decision = 3
    /\ ArgMax(advice.l) = {1}


\* C11 as stated: wrap_advice fails for every decision outside 1..MAX_FACTOR,
\* 0 included, and returns a vector for every decision inside
C11_LegalRangeOneToMax ==
    advice.called => (advice.ok <=> advice.decision \in LegalDecisions)

\* C11 amended: wrap_advice fails an assertion exactly for the negative
\* decisions and those above MAX_FACTOR; 0 is accepted like 1, and every
\* accepted decision below OFFSET gives the all-neutral vector
C11_LegalRangeZeroToMax ==
    advice.called =>
        /\ advice.ok <=> advice.decision \in 0..MAX_UNROLL_FACTOR
        /\ (advice.ok /\ advice.decision < UNROLL_FACTOR_OFFSET) =>
               advice.l = [i \in 1..ADVICE_TENSOR_LEN |-> NeutralWeight]

\* C11 witness: decision 0 was wrapped and gave the all-neutral vector
C11_Witness ==
    /\ advice.called
    /\ advice.decision = 0
    /\ advice.ok
    /\ \A i \in 1..Len(advice.l) : advice.l[i] = NeutralWeight


\* C12: get_default_decision returns 1 for heuristic 0, MAX_FACTOR for every
\* heuristic above MAX_FACTOR and the heuristic itself otherwise, so that for
\* every heuristic >= 0 the result is a legal decision
C12_DefaultDecisionLegal ==
    lastDefault.called =>
        /\ lastDefault.heuristic = 0 => lastDefault.result = 1
        /\ lastDefault.heuristic > MAX_UNROLL_FACTOR =>
               lastDefault.result = MAX_UNROLL_FACTOR
        /\ (lastDefault.heuristic # 0
                /\ lastDefault.heuristic <= MAX_UNROLL_FACTOR) =>
               lastDefault.result = lastDefault.heuristic
        /\ lastDefault.heuristic >= 0 => lastDefault.result \in LegalDecisions

\* C12 witness: the heuristic MAX_FACTOR + 3 was clamped to MAX_FACTOR
C12_Witness ==
    /\ lastDefault.called
    /\ lastDefault.heuristic = MAX_UNROLL_FACTOR + 3
    /\ lastDefault.result = MAX_UNROLL_FACTOR

\* C14: when get_score has been left, by its return or by an exception of
\* the compiler run, of on_action or of the scoring function, no temporary
\* file that call acquired is still held
C14_TemporariesReleased ==
    gs.pc \in {"returned", "raised"} => gs.held \cap gs.acquired = {}

\* C14 witness: on_action raised out of the compiler run while both files
\* were held, and the call was left with neither held
C14_Witness ==
    /\ gs.pc = "raised"
    /\ gs.err = "MonteCarloError"
    /\ gs.acquired = {"f1", "f2"}
    /\ gs.held = {}


\* the last decisions of the children of a node
child_decisions(t, state) ==
    {last_decision(t[state].children[i]) : i \in 1..Len(t[state].children)}

\* the legal decisions no child of the node carries
untried(t, state) == LegalDecisions \ child_decisions(t, state)

\* the node of the last get_next_state call had MAX_FACTOR children
CalledOnFull ==
    /\ lastNext.called
    /\ Len(lastNext.before[lastNext.state].children) = MAX_UNROLL_FACTOR

\* C15: the children of every node carry pairwise-distinct last decisions
\* and number at most MAX_FACTOR, and a get_next_state call on a node with
\* MAX_FACTOR children adds no node and leaves every node's children as
\* they were
C15_ChildrenDistinctAndBounded ==
    /\ \A n \in DOMAIN tree :
          /\ Len(tree[n].children) <= MAX_UNROLL_FACTOR
          /\ \A i, j \in 1..Len(tree[n].children) :
                i # j => last_decision(tree[n].children[i])
                            # last_decision(tree[n].children[j])
    /\ CalledOnFull =>
          /\ DOMAIN tree = DOMAIN lastNext.before
          /\ \A n \in DOMAIN tree :
                tree[n].children = lastNext.before[n].children

\* C15 witness: get_next_state was called on a node with MAX_FACTOR
\* children of distinct decisions and the tree has the nodes it had
C15_Witness ==
    /\ CalledOnFull
    /\ child_decisions(tree, lastNext.state) = LegalDecisions
    /\ DOMAIN tree = DOMAIN lastNext.before

\* C16: a get_next_state call on a node with an untried legal decision
\* adds exactly one child, carrying one of the untried decisions, and
\* returns it without calling uct; uct is called only at a node where no
\* untried decision remains
C16_ForcedExploration ==
    lastNext.called =>
        /\ untried(lastNext.before, lastNext.state) # {} =>
              /\ lastNext.err = ""
              /\ lastNext.result # None
              /\ lastNext.evaluated = <<>>
              /\ \E d \in untried(lastNext.before, lastNext.state) :
                    /\ lastNext.result = Some(Append(lastNext.state, d))
                    /\ DOMAIN tree = DOMAIN lastNext.before
                                        \cup {Append(lastNext.state, d)}
                    /\ child_decisions(tree, lastNext.state) =
                          child_decisions(lastNext.before, lastNext.state)
                              \cup {d}
        /\ lastNext.evaluated # <<>> =>
              untried(lastNext.before, lastNext.state) = {}

\* C16 witness: forced exploration gave a node that had all but one of the
\* legal decisions its last child
C16_Witness ==
    /\ lastNext.called
    /\ lastNext.branch = "explore"
    /\ Cardinality(untried(lastNext.before, lastNext.state)) = 1
    /\ lastNext.result # None
    /\ untried(tree, lastNext.state) = {}

\* C19: the last decision of every non-root node of the tree is a legal
\* decision, and wrap_advice of it fails no assertion
C19_StoredDecisionsLegal ==
    \A n \in DOMAIN tree \ {Root} :
        /\ last_decision(n) \in LegalDecisions
        /\ wrap_advice(last_decision(n)).ok

\* C19 witness: the rollout policy stored MAX_FACTOR at a leaf and forced
\* exploration stored another decision beside it, and both wrap
C19_Witness ==
    /\ lastNext.called
    /\ lastNext.branch = "explore"
    /\ lastNext.result # None
    /\ Len(lastNext.before[lastNext.state].children) = 1
    /\ last_decision(lastNext.before[lastNext.state].children[1])
           = MAX_UNROLL_FACTOR
    /\ \A n \in DOMAIN tree \ {Root} : wrap_advice(last_decision(n)).ok


\* C13 as stated: in every session state check_unroll_success raises the
\* unsuccessful-unrolling error exactly when action is false, the session
\* is not in rollout mode and the last decision of current is not 1; it
\* raises nothing else, and nothing in rollout mode
C13_RaisesIffUnsuccessful ==
    lastCheck.called =>
        /\ lastCheck.err \in {"", "MonteCarloError"}
        /\ lastCheck.err = "MonteCarloError" <=>
              /\ ~lastCheck.action
              /\ ~lastCheck.rollout
              /\ lastCheck.cur # None
              /\ lastCheck.cur[1] # Root
              /\ last_decision(lastCheck.cur[1]) # 1
        /\ lastCheck.rollout => lastCheck.err = ""

\* C17 as stated: when get_next_state reaches the uct selection at a node,
\* the node and every child of it have visits >= 1, so that uct is never
\* called on a node of visits 0
C17_UctOnlyOnVisited ==
    (lastNext.called /\ lastNext.branch = "uct") =>
        /\ lastNext.before[lastNext.state].visits >= 1
        /\ \A i \in 1..Len(lastNext.before[lastNext.state].children) :
              lastNext.before[lastNext.before[lastNext.state].children[i]]
                  .visits >= 1
        /\ \A i \in 1..Len(lastNext.evaluated) :
              lastNext.before[lastNext.evaluated[i]].visits >= 1

\* C18 as stated: a get_next_state call on a node whose MAX_FACTOR
\* decisions are all tried returns a child of that node of maximal uct,
\* and of several maximal children the one added first
C18_ReturnsFirstMaximalChild ==
    CalledOnFull =>
        LET kids == lastNext.before[lastNext.state].children
        IN  /\ lastNext.err = ""
            /\ \E i \in 1..Len(kids) :
                  /\ lastNext.result = Some(kids[i])
                  /\ \A j \in 1..Len(kids) :
                        /\ uct(lastNext.before, kids[j]).ok
                        /\ uct(lastNext.before, kids[j]).value
                              <= uct(lastNext.before, kids[i]).value
                        /\ j < i => uct(lastNext.before, kids[j]).value
                                       < uct(lastNext.before, kids[i]).value

====
